---- MODULE Spec2Model ----
(***************************************************************************)
(* Model of the WWZ Energy integration (Lextum/hacs_wwz):                  *)
(*   - WwzApiClient (custom_components/wwz_energy/api.py): login           *)
(*     handshake, get_daily_data with one-shot re-authentication, close.   *)
(*   - WwzEnergyCoordinator (custom_components/wwz_energy/coordinator.py): *)
(*     _async_update_data (today / yesterday fallback, snapshot) and       *)
(*     _insert_statistics (cumulative-sum backfill into the recorder).     *)
(*   - WwzEnergyConfigFlow.async_step_user (config_flow.py) and            *)
(*     async_setup_entry / async_unload_entry (__init__.py).               *)
(*                                                                         *)
(* Units.  Time is counted in ticks, TicksPerHour ticks to the hour and    *)
(* DayLen hours to the calendar day (the source uses epoch milliseconds    *)
(* and 24-hour days in Europe/Zurich).  Energy values are integers in      *)
(* units of 0.0001 kWh, so that round(x, 3) is a real conversion: it       *)
(* rounds to the nearest multiple of 10.                                   *)
(***************************************************************************)
EXTENDS Integers, Sequences, FiniteSets, TLC

\* ------------------------------------------------------------------ bounds
DayLen == 2
TicksPerHour == 2
MaxCycles == 2

\* The cycles of a run fall on one calendar day, "today"; a cycle reads the
\* portal's rows of today and, on fallback, of yesterday.  Yesterday is day 0
\* and today is day 1.
DayTicks == DayLen * TicksPerHour
Hours == 0 .. (2 * DayLen - 1)
FirstNow == DayTicks
LastNow == 2 * DayTicks - 1

\* the value the meter measured in an hour, and the provisional values the
\* portal may report while the hour is pending (units of 0.0001 kWh)
MeterValue(h) == IF h % 2 = 0 THEN 12 ELSE 26
PendingValues == {0, 26}
Units == {"Wh", "absent"}
MeterIds == {"m1"}

\* what the handshake endpoints can carry: body["data"] of login,
\* accounts[0]["caId"], contracts[0]["meterPointNumber"], and
\* str(data.get("meterId", ""))
TokenReplies == {"tok"}
ContractAccountReplies == {"ca1"}
MeterPointReplies == {"mp1"}
MeterIdReplies == MeterIds \cup {""}

None == "None"

\* ----------------------------------------------------------- pure helpers
\* round(x, 3) on a value counted in 0.0001: nearest multiple of 10,
\* ties to the even multiple (Python's round)
Round3(x) ==
  LET q == x \div 10
      r == x % 10
  IN  IF r < 5 THEN 10 * q
      ELSE IF r > 5 THEN 10 * (q + 1)
      ELSE IF q % 2 = 0 THEN 10 * q ELSE 10 * (q + 1)

\* datetime.fromtimestamp(date / 1000, tz=CET).replace(minute=0, second=0,
\* microsecond=0): the hour a timestamp falls in
HourOf(date) == date \div TicksPerHour

\* date.astimezone(cet).replace(hour=0, minute=0, ...) as an epoch value
StartOfDay(date) == (date \div DayTicks) * DayTicks

\* data_date.strftime("%Y-%m-%d"): the calendar day of a timestamp
FormatDate(date) == date \div DayTicks

RECURSIVE SumValues(_)
SumValues(s) == IF s = <<>> THEN 0 ELSE Head(s).value + SumValues(Tail(s))

\* [v for v in values if v.get("status") == 0]
FilterValidKeepsAll(s) == s
FilterValidKeepsNone(s) == <<>>
FilterValid(s) == SelectSeq(s, LAMBDA v : v.status = 0)

\* sorted(values, key=lambda x: x["date"]): stable insertion sort
RECURSIVE InsertSorted(_, _)
InsertSorted(v, s) ==
  IF s = <<>> THEN <<v>>
  ELSE IF v.date < Head(s).date THEN <<v>> \o s
  ELSE <<Head(s)>> \o InsertSorted(v, Tail(s))

SortByDateKeepsOrder(s) == s

RECURSIVE SortByDate(_)
SortByDate(s) ==
  IF s = <<>> THEN <<>>
  ELSE InsertSorted(s[Len(s)], SortByDate(SubSeq(s, 1, Len(s) - 1)))

\* all orderings of a finite set, as sequences
RECURSIVE Perms(_)
Perms(S) ==
  IF S = {} THEN {<<>>}
  ELSE UNION {{<<x>> \o p : p \in Perms(S \ {x})} : x \in S}

\* "not logged in" in msg.lower() or "unauthorized" in msg.lower()
ExpiryMessages == {"User is Not Logged In", "UNAUTHORIZED request"}
OtherMessages == {"No data for period", "absent"}
Messages == ExpiryMessages \cup OtherMessages
Lower(msg) ==
  CASE msg = "User is Not Logged In" -> "user is not logged in"
    [] msg = "UNAUTHORIZED request" -> "unauthorized request"
    [] msg = "No data for period" -> "no data for period"
    [] OTHER -> ""
IsExpiryAnyMessage(msg) == TRUE
IsExpiryCaseSensitive(msg) == msg \in {"user is not logged in", "unauthorized request"}
IsExpiry(msg) == Lower(msg) \in {"user is not logged in", "unauthorized request"}

\* ------------------------------------------------------------------- state
VARIABLES
  now,                 \* wall clock, in ticks
  portal,              \* remote portal: per hour, status (0 final, 3 pending) and value
  store,               \* recorder statistics: series -> set of points [start, state, sum]
  session,             \* WwzApiClient._session: "none", "open", "closed"
  token,               \* WwzApiClient._token
  contract_account_id, \* WwzApiClient._contract_account_id
  meter_number,        \* WwzApiClient._meter_number
  meter_id,            \* WwzApiClient._meter_id
  host,                \* the config entry: "new" (not created), "entry", "setup", "running", "failed", "unloaded"
  pc,                  \* position of the single flow of control
  loginCaller,         \* who awaits the running login(): "host" or "gdd"
  err,                 \* last exception raised: [type, msg]
  gddDate,             \* get_daily_data: the date argument
  firstResp,           \* get_daily_data: first response of the portal
  retryResp,           \* get_daily_data: response to the replayed request
  gddLogins,           \* login() calls made by the current get_daily_data call
  gddRequests,         \* data requests sent by the current get_daily_data call
  gddState,            \* "none", "running", "returned", "raised"
  fetched,             \* the dict the last get_daily_data call returned
  sync_now,            \* _async_update_data: now
  data_date,           \* _async_update_data: data_date
  data,                \* _async_update_data: data
  valid_values,        \* _async_update_data: valid_values
  syncResult,          \* outcome of the cycle: "none", "running", "snapshot", "UpdateFailed", "StoreError"
  gddCalls,            \* get_daily_data calls made by the current cycle
  earlierLogins,       \* login() calls made by the cycle's get_daily_data calls that returned
  earlierRequests,     \* data requests sent by the cycle's get_daily_data calls that returned
  storeQueries,        \* statistics_during_period calls made by the current cycle
  storeUpserts,        \* async_add_external_statistics calls made by the current cycle
  first_dt,            \* _insert_statistics: first_dt (an hour)
  entries,             \* _insert_statistics: entries
  base_sum,            \* _insert_statistics: base_sum
  statistics,          \* _insert_statistics: statistics
  written,             \* the series and the points of the last batch an earlier cycle upserted
  cycles,              \* number of cycles the scheduling host has started
  flowResult,          \* async_step_user: "none", errors["base"], or "create_entry"
  loginResp,           \* login(): the response to the login POST of the running or last call
  loginSent            \* login(): the requests the running or last call has issued, in order

clientVars == <<session, token, contract_account_id, meter_number, meter_id>>
serverVars == <<now, portal>>
gddVars == <<gddDate, firstResp, retryResp, gddLogins, gddRequests, fetched>>
syncVars == <<sync_now, data_date, data, valid_values, gddCalls, storeQueries, storeUpserts,
              earlierLogins, earlierRequests>>
insVars == <<first_dt, entries, base_sum, statistics, written>>
ctlVars == <<host, pc, loginCaller, err, gddState, syncResult, flowResult>>
loginVars == <<loginResp, loginSent>>
vars == <<serverVars, store, clientVars, gddVars, syncVars, insVars, ctlVars, cycles, loginVars>>

NoErr == [type |-> "none", msg |-> "none", detail |-> "none"]
NoResp == [kind |-> "none", message |-> "none"]
NoLoginResp == [transport |-> "none"]
\* no batch has been upserted yet
NoBatch == [series |-> <<>>, points |-> <<>>]
NoData == [values |-> <<>>, daily_total |-> 0, unit |-> None,
           last_hour |-> <<>>, data_date |-> <<>>]

\* statistic_id = f"{DOMAIN}:energy_{self.api_client.meter_id}"
StatisticId(m) == <<"wwz_energy", "energy", m>>
SeriesIds == {StatisticId(m) : m \in MeterIds \cup {""}}

\* WwzApiClient.__init__, a fresh recorder, a portal with nothing finalized
Init ==
  /\ now = FirstNow
  /\ portal = [h \in Hours |-> [status |-> 3, value |-> 0]]
  /\ store = [s \in SeriesIds |-> {}]
  /\ session = "none"
  /\ token = None
  /\ contract_account_id = None
  /\ meter_number = None
  /\ meter_id = None
  /\ host = "new"
  /\ pc = "idle"
  /\ loginCaller = "host"
  /\ err = NoErr
  /\ gddDate = 0
  /\ firstResp = NoResp
  /\ retryResp = NoResp
  /\ gddLogins = 0
  /\ gddRequests = 0
  /\ gddState = "none"
  /\ fetched = NoData
  /\ sync_now = 0
  /\ data_date = 0
  /\ data = NoData
  /\ valid_values = <<>>
  /\ syncResult = "none"
  /\ gddCalls = 0
  /\ earlierLogins = 0
  /\ earlierRequests = 0
  /\ storeQueries = 0
  /\ storeUpserts = 0
  /\ first_dt = 0
  /\ entries = <<>>
  /\ base_sum = 0
  /\ statistics = <<>>
  /\ written = NoBatch
  /\ cycles = 0
  /\ flowResult = "none"
  /\ loginResp = NoLoginResp
  /\ loginSent = <<>>

\* ------------------------------------------------------------ environment
\* The portal is read only by a cycle, once per request, so its steps are
\* taken between cycles, while a further cycle can still follow.  The clock is
\* read once, when a cycle starts (see SyncStart).
EnvironmentStep ==
  /\ pc = "idle"
  /\ host = "running"
  /\ cycles < MaxCycles

\* the portal finalizes the reading of one hour (status 3 -> 0) with its value
ServerFinalize ==
  /\ cycles' = cycles
  /\ EnvironmentStep
  /\ \E h \in Hours :
       /\ portal[h].status = 3
       /\ portal' = [portal EXCEPT ![h] = [status |-> 0, value |-> MeterValue(h)]]
  /\ UNCHANGED <<now, store, clientVars, gddVars, syncVars, insVars, ctlVars, loginVars>>

\* the rows getDiagramValues returns for the day starting at epoch: one row per
\* hour of that day, in an order of the portal's choosing; pending rows carry
\* the provisional value g
DayHours(epoch) == {h \in Hours : h * TicksPerHour >= epoch /\ h * TicksPerHour < epoch + DayTicks}
Row(h, g) ==
  [date |-> h * TicksPerHour,
   value |-> IF portal[h].status = 0 THEN portal[h].value ELSE g,
   status |-> portal[h].status]
DayRows(epoch) ==
  {[i \in 1..Len(p) |-> Row(p[i], g)] : p \in Perms(DayHours(epoch)), g \in PendingValues}

\* the bodies the data endpoint can answer with
DataResponses(epoch) ==
  {[kind |-> "conn_error"], [kind |-> "http_error"], [kind |-> "empty"]}
  \cup {[kind |-> "nodata", message |-> m] : m \in Messages}
  \cup {[kind |-> "payload", values |-> rows, unit |-> u] : rows \in DayRows(epoch), u \in Units}

\* ------------------------------------------------------------ WwzApiClient
\* `except WwzApiError` of _async_update_data: the exception types it catches
\* (WwzAuthError is a WwzApiError)
CaughtExactTypeOnly(type) == type = "WwzApiError"
Caught(type) == type \in {"WwzApiError", "WwzAuthError"}

\* async_step_user: `except WwzAuthError` -> "invalid_auth", then
\* `except WwzApiError` -> "cannot_connect", then `except Exception` -> "unknown"
FlowError(type) ==
  IF type = "WwzAuthError" THEN "invalid_auth"
  ELSE IF Caught(type) THEN "cannot_connect"
  ELSE "unknown"

\* an exception leaves the running operation.  In login() called by
\* async_setup_entry ("host") it fails the setup; in login() called by
\* async_step_user ("flow") it is turned into errors["base"]; in login() called
\* directly ("api") it reaches the caller; inside get_daily_data it leaves
\* get_daily_data and is caught by _async_update_data (except WwzApiError ->
\* raise UpdateFailed)
RaiseWith(ctx, type, msg, detail) ==
  /\ err' = [type |-> type, msg |-> msg, detail |-> detail]
  /\ loginCaller' = loginCaller
  /\ CASE ctx = "host" ->
            /\ host' = "failed"
            /\ pc' = "idle"
            /\ UNCHANGED <<gddState, syncResult, flowResult>>
       [] ctx = "flow" ->
            /\ flowResult' = FlowError(type)
            /\ pc' = "flow_finally"
            /\ UNCHANGED <<host, gddState, syncResult>>
       [] ctx = "api" ->
            /\ pc' = "idle"
            /\ UNCHANGED <<host, gddState, syncResult, flowResult>>
       [] OTHER ->
            /\ host' = host
            /\ pc' = "sync_done"
            /\ gddState' = "raised"
            /\ syncResult' = IF Caught(type) THEN "UpdateFailed" ELSE type
            /\ flowResult' = flowResult

RaiseAsDataUnavailable(ctx, type, msg) ==
  RaiseWith(ctx, "WwzApiError", "API returned no data", "none")
Raise(ctx, type, msg) == RaiseWith(ctx, type, msg, "none")

Goto(label) ==
  /\ pc' = label
  /\ UNCHANGED <<host, loginCaller, err, gddState, syncResult, flowResult>>

\* _ensure_session: a new ClientSession unless one is open
ensure_session(s) == IF s = "none" \/ s = "closed" THEN "open" ELSE s

\* the statements of login() and _setup_meter_context, in program order: the
\* step that follows a step that completed
LoginOrder ==
  <<"login_root", "login_post", "login_validation", "login_contract_accounts",
    "login_meter_points", "login_meter_point_id">>
StepIndex(step) == CHOOSE i \in 1..Len(LoginOrder) : LoginOrder[i] = step
AfterSkippingValidation(step) ==
  IF step = "login_post" THEN "login_contract_accounts"
  ELSE LoginOrder[StepIndex(step) + 1]
After(step) == LoginOrder[StepIndex(step) + 1]

\* login(), step 1: _ensure_session, then GET of the portal root
LoginRoot ==
  /\ cycles' = cycles
  /\ pc = "login_root"
  /\ session' = ensure_session(session)
  /\ loginSent' = <<"login_root">>
  /\ loginResp' = NoLoginResp
  /\ UNCHANGED <<token, contract_account_id, meter_number, meter_id>>
  /\ UNCHANGED <<serverVars, store, gddVars, syncVars, insVars>>
  /\ \E resp \in {"ok", "conn_error"} :
       IF resp = "conn_error"
         THEN Raise(loginCaller, "WwzApiError", "Failed to obtain session")
         ELSE Goto(After("login_root"))

\* what the login endpoint can answer: a transport failure, or a status and a
\* body whose frontEndMessage.messageType is 0, another code, or missing
\* (<<>>), with body["data"]
LoginPostReplies ==
  {[transport |-> "error"]}
  \cup {[transport |-> "ok", status |-> st, messageType |-> mt] :
          st \in {200, 401}, mt \in {<<0>>, <<1>>, <<>>}}

\* login(), step 2: the exception the response raises ("none": no exception)
LoginPostOutcomeTrustingBody(resp) ==
  IF resp.transport = "error"
    THEN [type |-> "WwzApiError", msg |-> "Connection error during login"]
  ELSE IF resp.status # 200
    THEN [type |-> "WwzAuthError", msg |-> "Login failed with status"]
  ELSE IF resp.messageType = <<1>>
    THEN [type |-> "WwzAuthError", msg |-> "Login failed"]
  ELSE [type |-> "none", msg |-> "none"]
LoginPostOutcome(resp) ==
  IF resp.transport = "error"
    THEN [type |-> "WwzApiError", msg |-> "Connection error during login"]
  ELSE IF resp.status # 200
    THEN [type |-> "WwzAuthError", msg |-> "Login failed with status"]
  ELSE IF resp.messageType # <<0>>
    THEN [type |-> "WwzAuthError", msg |-> "Login failed"]
  ELSE [type |-> "none", msg |-> "none"]

\* login(), step 2: POST of the credentials
LoginPost ==
  /\ cycles' = cycles
  /\ pc = "login_post"
  /\ loginSent' = Append(loginSent, "login_post")
  /\ UNCHANGED <<serverVars, store, gddVars, syncVars, insVars>>
  /\ UNCHANGED <<session, contract_account_id, meter_number, meter_id>>
  /\ \E resp \in LoginPostReplies, tok \in TokenReplies :
       /\ loginResp' = resp
       /\ IF LoginPostOutcome(resp).type # "none"
            THEN /\ token' = token
                 /\ Raise(loginCaller, LoginPostOutcome(resp).type,
                          LoginPostOutcome(resp).msg)
            ELSE /\ token' = tok
                 /\ Goto(After("login_post"))

\* login(), step 3: POST of the validation call
LoginValidation ==
  /\ cycles' = cycles
  /\ pc = "login_validation"
  /\ loginSent' = Append(loginSent, "login_validation")
  /\ UNCHANGED loginResp
  /\ UNCHANGED <<serverVars, store, clientVars, gddVars, syncVars, insVars>>
  /\ \E resp \in {"ok", "conn_error"} :
       IF resp = "conn_error"
         THEN Raise(loginCaller, "WwzApiError", "Validation failed")
         ELSE Goto(After("login_validation"))

\* _setup_meter_context: contractAccounts -> caId
LoginContractAccounts ==
  /\ cycles' = cycles
  /\ pc = "login_contract_accounts"
  /\ loginSent' = Append(loginSent, "login_contract_accounts")
  /\ UNCHANGED loginResp
  /\ UNCHANGED <<serverVars, store, gddVars, syncVars, insVars>>
  /\ UNCHANGED <<session, token, meter_number, meter_id>>
  /\ \E resp \in {"ok", "conn_error", "empty"}, ca \in ContractAccountReplies :
       CASE resp = "conn_error" ->
              /\ contract_account_id' = contract_account_id
              /\ Raise(loginCaller, "WwzApiError", "Failed to get contract accounts")
         [] resp = "empty" ->
              /\ contract_account_id' = contract_account_id
              /\ Raise(loginCaller, "WwzApiError", "No contract accounts found")
         [] OTHER ->
              /\ contract_account_id' = ca
              /\ Goto(After("login_contract_accounts"))

\* _setup_meter_context: getMeterPoints -> meterPointNumber
LoginMeterPoints ==
  /\ cycles' = cycles
  /\ pc = "login_meter_points"
  /\ loginSent' = Append(loginSent, "login_meter_points")
  /\ UNCHANGED loginResp
  /\ UNCHANGED <<serverVars, store, gddVars, syncVars, insVars>>
  /\ UNCHANGED <<session, token, contract_account_id, meter_id>>
  /\ \E resp \in {"ok", "conn_error", "empty"}, mn \in MeterPointReplies :
       CASE resp = "conn_error" ->
              /\ meter_number' = meter_number
              /\ Raise(loginCaller, "WwzApiError", "Failed to get meter points")
         [] resp = "empty" ->
              /\ meter_number' = meter_number
              /\ Raise(loginCaller, "WwzApiError", "No meter points found")
         [] OTHER ->
              /\ meter_number' = mn
              /\ Goto(After("login_meter_points"))

\* _setup_meter_context: getMeterPointId -> meterId; then login() returns: to
\* async_setup_entry (the entry is set up), to async_step_user (the entry is
\* created), to a direct caller, or into get_daily_data (the replay)
LoginMeterPointId ==
  /\ cycles' = cycles
  /\ pc = "login_meter_point_id"
  /\ loginSent' = Append(loginSent, "login_meter_point_id")
  /\ UNCHANGED loginResp
  /\ UNCHANGED <<serverVars, store, gddVars, syncVars, insVars>>
  /\ UNCHANGED <<session, token, contract_account_id, meter_number>>
  /\ \E resp \in {"ok", "conn_error"}, mid \in MeterIdReplies :
       IF resp = "conn_error"
         THEN /\ meter_id' = meter_id
              /\ Raise(loginCaller, "WwzApiError", "Failed to get meter point ID")
         ELSE /\ meter_id' = mid
              /\ CASE loginCaller = "host" ->
                        /\ pc' = "setup_rest"
                        /\ UNCHANGED <<host, loginCaller, err, gddState, syncResult, flowResult>>
                   [] loginCaller = "flow" ->
                        /\ pc' = "flow_finally"
                        /\ flowResult' = "create_entry"
                        /\ UNCHANGED <<host, loginCaller, err, gddState, syncResult>>
                   [] loginCaller = "api" ->
                        Goto("idle")
                   [] OTHER ->
                        Goto("gdd_retry")

login ==
  \/ LoginRoot
  \/ LoginPost
  \/ LoginValidation
  \/ LoginContractAccounts
  \/ LoginMeterPoints
  \/ LoginMeterPointId

\* get_daily_data: what is returned for a payload `inner`
DailyData(inner) ==
  [values |-> inner.values,
   daily_total |-> Round3(SumValues(inner.values)),
   unit |-> IF inner.unit = "absent" THEN "kWh" ELSE inner.unit,
   last_hour |-> <<>>,
   data_date |-> <<>>]

\* the text of frontEndMessage.message, with the default used when it is absent
MessageText(resp, default) ==
  IF resp.kind = "nodata" /\ resp.message # "absent" THEN resp.message ELSE default

\* get_daily_data returns to _async_update_data
GddReturn(inner) ==
  /\ fetched' = DailyData(inner)
  /\ data' = DailyData(inner)
  /\ gddState' = "returned"
  /\ pc' = "sync_fetched"
  /\ UNCHANGED <<host, loginCaller, err, syncResult, flowResult>>

\* get_daily_data, first request: _ensure_session, GET getDiagramValues, and
\* the handling of its response up to the re-authentication
GddFirst ==
  /\ cycles' = cycles
  /\ pc = "gdd_first"
  /\ session' = ensure_session(session)
  /\ gddRequests' = gddRequests + 1
  /\ UNCHANGED <<token, contract_account_id, meter_number, meter_id>>
  /\ UNCHANGED <<serverVars, store, insVars, gddDate, retryResp, loginVars>>
  /\ UNCHANGED <<sync_now, data_date, valid_values, gddCalls, storeQueries, storeUpserts>>
  /\ UNCHANGED <<earlierLogins, earlierRequests>>
  /\ \E resp \in DataResponses(StartOfDay(gddDate)) :
       /\ firstResp' = [kind |-> resp.kind, message |-> MessageText(resp, "absent")]
       /\ CASE resp.kind = "conn_error" ->
                 /\ Raise("gdd", "WwzApiError", "Connection error")
                 /\ UNCHANGED <<gddLogins, fetched, data>>
            [] resp.kind = "http_error" ->
                 /\ Raise("gdd", "WwzApiError", "API request failed")
                 /\ UNCHANGED <<gddLogins, fetched, data>>
            [] resp.kind = "payload" ->
                 /\ GddReturn(resp)
                 /\ UNCHANGED gddLogins
            [] resp.kind = "empty" ->
                 /\ RaiseWith("gdd", "WwzApiError", "API returned no data", "empty response")
                 /\ UNCHANGED <<gddLogins, fetched, data>>
            [] OTHER ->
                 IF IsExpiry(MessageText(resp, ""))
                   THEN /\ gddLogins' = gddLogins + 1
                        /\ pc' = "login_root"
                        /\ loginCaller' = "gdd"
                        /\ UNCHANGED <<host, err, gddState, syncResult, flowResult, fetched, data>>
                   ELSE /\ RaiseWith("gdd", "WwzApiError", "API returned no data",
                                     MessageText(resp, "unknown"))
                        /\ UNCHANGED <<gddLogins, fetched, data>>

\* get_daily_data after a successful re-login: _ensure_session, the replayed
\* request, and the final check of the payload
GddRetry ==
  /\ cycles' = cycles
  /\ pc = "gdd_retry"
  /\ session' = ensure_session(session)
  /\ gddRequests' = gddRequests + 1
  /\ UNCHANGED <<token, contract_account_id, meter_number, meter_id>>
  /\ UNCHANGED <<serverVars, store, insVars, gddDate, firstResp, gddLogins, loginVars>>
  /\ UNCHANGED <<sync_now, data_date, valid_values, gddCalls, storeQueries, storeUpserts>>
  /\ UNCHANGED <<earlierLogins, earlierRequests>>
  /\ \E resp \in DataResponses(StartOfDay(gddDate)) :
       /\ retryResp' = [kind |-> resp.kind, message |-> MessageText(resp, "absent")]
       /\ CASE resp.kind = "conn_error" ->
                 /\ Raise("gdd", "WwzApiError", "Connection error")
                 /\ UNCHANGED <<fetched, data>>
            [] resp.kind = "http_error" ->
                 /\ Raise("gdd", "WwzApiError", "API request failed after re-auth")
                 /\ UNCHANGED <<fetched, data>>
            [] resp.kind = "payload" ->
                 GddReturn(resp)
            [] resp.kind = "empty" ->
                 /\ RaiseWith("gdd", "WwzApiError", "API returned no data", "empty response")
                 /\ UNCHANGED <<fetched, data>>
            [] OTHER ->
                 /\ RaiseWith("gdd", "WwzApiError", "API returned no data",
                              MessageText(resp, "unknown"))
                 /\ UNCHANGED <<fetched, data>>

get_daily_data == GddFirst \/ GddRetry

\* close(): the session is closed if one is open
close(s) == IF s = "open" THEN "closed" ELSE s

\* ---------------------------------------------------- WwzEnergyCoordinator
\* for v in reversed(valid_values): if v["date"] <= now_ms: take v["value"]
\* (<<>> stands for None)
RECURSIVE LastHourValue(_, _)
LastHourValue(vv, now_ms) ==
  IF vv = <<>> THEN <<>>
  ELSE IF vv[Len(vv)].date <= now_ms THEN <<vv[Len(vv)].value>>
  ELSE LastHourValue(SubSeq(vv, 1, Len(vv) - 1), now_ms)

\* statistics_during_period(hass, start_time, end_time, {id}, "hour", None,
\* {"sum"}): the points of the series with start_time <= start < end_time,
\* in ascending order of start
RECURSIVE PointsAscending(_)
PointsAscending(P) ==
  IF P = {} THEN <<>>
  ELSE LET first == CHOOSE p \in P : \A q \in P : p.start <= q.start
       IN  <<first>> \o PointsAscending(P \ {first})

statistics_during_period(points, start_time, end_time) ==
  PointsAscending({p \in points : p.start >= start_time /\ p.start < end_time})

\* the two arguments that bound the query of _insert_statistics:
\* first_dt - timedelta(hours=1) and first_dt
QueryFrom(first) == first - 1
QueryUntilInclusive(first) == first + 1
QueryUntilEndOfDay(first) == first + DayLen
QueryUntil(first) == first

\* base_sum = float((entries[-1] if entries else {}).get("sum") or 0.0)
BaseSumZero(found) == 0
BaseSum(found) == IF found = <<>> THEN 0 ELSE found[Len(found)].sum

\* the loop that builds `statistics` from the sorted readings
RECURSIVE BuildStatistics(_, _)
BuildStatistics(sorted_values, cumulative_sum) ==
  IF sorted_values = <<>> THEN <<>>
  ELSE LET v == Head(sorted_values)
           next_sum == Round3(cumulative_sum + v.value)
       IN  <<[start |-> HourOf(v.date), sum |-> next_sum, state |-> Round3(v.value)]>>
           \o BuildStatistics(Tail(sorted_values), next_sum)

\* async_add_external_statistics: each point replaces the stored point of the
\* same start, or is added
RECURSIVE Upsert(_, _)
Upsert(points, stats) ==
  IF stats = <<>> THEN points
  ELSE Upsert({p \in points : p.start # Head(stats).start} \cup {Head(stats)},
              Tail(stats))

\* _insert_statistics as a function of the store and the batch
InsertFirst(values) == HourOf(SortByDate(values)[1].date)
InsertEntries(points, values) ==
  statistics_during_period(points, QueryFrom(InsertFirst(values)),
                           QueryUntil(InsertFirst(values)))
InsertStatisticsList(points, values) ==
  BuildStatistics(SortByDate(values), BaseSum(InsertEntries(points, values)))
InsertResult(points, values) ==
  IF values = <<>> THEN points
  ELSE Upsert(points, InsertStatisticsList(points, values))

\* now - timedelta(days=1)
YesterdayIsToday(t) == t
Yesterday(t) == t - DayTicks

\* `if not meter_id`: None and the empty string are falsy
NoMeterIdOnlyNone(m) == m = None
NoMeterId(m) == m = None \/ m = ""

\* the scheduling host starts a cycle, at the time of its choosing (the clock
\* never runs backwards): _async_update_data up to the first get_daily_data call
SyncStart ==
  /\ pc = "idle"
  /\ host = "running"
  /\ cycles < MaxCycles
  /\ cycles' = cycles + 1
  /\ UNCHANGED <<portal, store, clientVars, insVars, host, loginCaller, flowResult>>
  /\ loginResp' = NoLoginResp
  /\ loginSent' = <<>>
  /\ \E t \in now .. LastNow : now' = t
  /\ storeQueries' = 0
  /\ storeUpserts' = 0
  /\ valid_values' = <<>>
  /\ data' = NoData
  /\ UNCHANGED fetched
  /\ firstResp' = NoResp
  /\ retryResp' = NoResp
  /\ gddLogins' = 0
  /\ gddRequests' = 0
  /\ earlierLogins' = 0
  /\ earlierRequests' = 0
  /\ IF NoMeterId(meter_id)
       THEN /\ err' = [type |-> "UpdateFailed", msg |-> "No meter ID available",
                       detail |-> "none"]
            /\ syncResult' = "UpdateFailed"
            /\ gddState' = "none"
            /\ gddCalls' = 0
            /\ pc' = "sync_done"
            /\ UNCHANGED <<sync_now, data_date, gddDate>>
       ELSE /\ err' = NoErr
            /\ syncResult' = "running"
            /\ sync_now' = now'
            /\ data_date' = now'
            /\ gddDate' = now'
            /\ gddCalls' = 1
            /\ gddState' = "running"
            /\ pc' = "gdd_first"

\* _async_update_data after a get_daily_data call returned: the filter, the
\* fallback to yesterday, or the snapshot
SyncFetched ==
  /\ cycles' = cycles
  /\ pc = "sync_fetched"
  /\ UNCHANGED <<serverVars, store, clientVars, insVars, host, loginCaller, err, flowResult>>
  /\ loginResp' = NoLoginResp
  /\ loginSent' = <<>>
  /\ UNCHANGED <<sync_now, storeQueries, storeUpserts, syncResult>>
  /\ LET valid == FilterValid(data.values)
     IN  IF valid = <<>> /\ gddCalls = 1
           THEN /\ data_date' = Yesterday(sync_now)
                /\ gddDate' = Yesterday(sync_now)
                /\ gddCalls' = gddCalls + 1
                /\ gddState' = "running"
                /\ firstResp' = NoResp
                /\ retryResp' = NoResp
                /\ gddLogins' = 0
                /\ gddRequests' = 0
                /\ earlierLogins' = earlierLogins + gddLogins
                /\ earlierRequests' = earlierRequests + gddRequests
                /\ pc' = "gdd_first"
                /\ data' = NoData
                /\ fetched' = NoData
                /\ UNCHANGED valid_values
           ELSE /\ valid_values' = valid
                /\ data' = [data EXCEPT
                              !.daily_total = Round3(SumValues(valid)),
                              !.last_hour = LastHourValue(valid, sync_now),
                              !.data_date = <<FormatDate(data_date)>>]
                /\ pc' = "sync_insert"
                /\ UNCHANGED <<data_date, gddDate, gddCalls, gddState, fetched>>
                /\ firstResp' = NoResp
                /\ retryResp' = NoResp
                /\ gddLogins' = 0
                /\ gddRequests' = 0
                /\ earlierLogins' = 0
                /\ earlierRequests' = 0

\* _insert_statistics(valid_values), then `return data`.  The query of the
\* recorder and the upsert may each raise; nothing catches the exception
SyncInsert ==
  /\ cycles' = cycles
  /\ pc = "sync_insert"
  /\ pc' = "sync_done"
  /\ UNCHANGED <<serverVars, clientVars, gddVars, host, loginCaller, gddState, flowResult, loginVars>>
  /\ UNCHANGED <<sync_now, data_date, data, valid_values, gddCalls>>
  /\ UNCHANGED <<earlierLogins, earlierRequests>>
  /\ IF valid_values = <<>>
       THEN /\ syncResult' = "snapshot"
            /\ UNCHANGED <<store, insVars, storeQueries, storeUpserts, err>>
       ELSE \E fail \in {"none", "query", "upsert"} :
              LET sid == StatisticId(meter_id)
                  found == InsertEntries(store[sid], valid_values)
                  stats == InsertStatisticsList(store[sid], valid_values)
              IN  /\ first_dt' = InsertFirst(valid_values)
                  /\ written' = written
                  /\ storeQueries' = storeQueries + 1
                  /\ IF fail = "query"
                       THEN /\ err' = [type |-> "StoreError", msg |-> "query",
                                       detail |-> "none"]
                            /\ syncResult' = "StoreError"
                            /\ UNCHANGED <<store, entries, base_sum, statistics, storeUpserts>>
                       ELSE /\ entries' = found
                            /\ base_sum' = BaseSum(found)
                            /\ statistics' = stats
                            /\ storeUpserts' = storeUpserts + 1
                            /\ IF fail = "upsert"
                                 THEN /\ err' = [type |-> "StoreError", msg |-> "upsert",
                                                 detail |-> "none"]
                                      /\ syncResult' = "StoreError"
                                      /\ store' = store
                                 ELSE /\ err' = err
                                      /\ syncResult' = "snapshot"
                                      /\ store' = [store EXCEPT ![sid] =
                                                     InsertResult(store[sid], valid_values)]

\* _async_update_data has returned or raised: the host takes the outcome and
\* the locals of the cycle are gone
SyncReturn ==
  /\ cycles' = cycles
  /\ pc = "sync_done"
  /\ pc' = "idle"
  /\ err' = NoErr
  /\ gddDate' = 0
  /\ firstResp' = NoResp
  /\ retryResp' = NoResp
  /\ gddLogins' = 0
  /\ gddRequests' = 0
  /\ gddState' = "none"
  /\ fetched' = NoData
  /\ sync_now' = 0
  /\ data_date' = 0
  /\ data' = NoData
  /\ valid_values' = <<>>
  /\ syncResult' = "none"
  /\ gddCalls' = 0
  /\ earlierLogins' = 0
  /\ earlierRequests' = 0
  /\ storeQueries' = 0
  /\ storeUpserts' = 0
  /\ first_dt' = 0
  /\ entries' = <<>>
  /\ base_sum' = 0
  /\ statistics' = <<>>
  /\ written' = IF syncResult = "snapshot" /\ storeUpserts = 1
                  THEN [series |-> StatisticId(meter_id), points |-> statistics]
                  ELSE written
  /\ UNCHANGED <<serverVars, store, clientVars, host, loginCaller, flowResult>>
  /\ loginResp' = NoLoginResp
  /\ loginSent' = <<>>

async_update_data == SyncStart \/ SyncFetched \/ SyncInsert \/ SyncReturn

\* ------------------------------------------------------------------- host
\* WwzApiClient(username, password): the fields of a newly constructed client
NewClient ==
  /\ session' = "none"
  /\ token' = None
  /\ contract_account_id' = None
  /\ meter_number' = None
  /\ meter_id' = None

\* async_step_user with user input: a client is constructed and login() is
\* awaited; after a failure the form is shown again and may be submitted again
FlowStart ==
  /\ cycles' = cycles
  /\ pc = "idle"
  /\ host = "new"
  /\ NewClient
  /\ pc' = "login_root"
  /\ loginCaller' = "flow"
  /\ err' = NoErr
  /\ flowResult' = "none"
  /\ loginResp' = NoLoginResp
  /\ loginSent' = <<>>
  /\ UNCHANGED <<serverVars, store, gddVars, syncVars, insVars>>
  /\ UNCHANGED <<host, gddState, syncResult>>

\* async_step_user, `finally: await client.close()`, then the entry is
\* created (else branch) or the form is shown with errors
FlowFinally ==
  /\ cycles' = cycles
  /\ pc = "flow_finally"
  /\ session' = close(session)
  /\ pc' = "idle"
  /\ host' = IF flowResult = "create_entry" THEN "entry" ELSE host
  /\ UNCHANGED <<token, contract_account_id, meter_number, meter_id>>
  /\ UNCHANGED <<serverVars, store, gddVars, syncVars, insVars, loginVars>>
  /\ UNCHANGED <<loginCaller, err, gddState, syncResult, flowResult>>

async_step_user == FlowStart \/ FlowFinally

\* async_setup_entry: a client is created and login() is awaited
HostSetup ==
  /\ cycles' = cycles
  /\ pc = "idle"
  /\ host = "entry"
  /\ host' = "setup"
  /\ NewClient
  /\ pc' = "login_root"
  /\ loginCaller' = "host"
  /\ loginResp' = NoLoginResp
  /\ loginSent' = <<>>
  /\ UNCHANGED <<serverVars, store, gddVars, syncVars, insVars>>
  /\ UNCHANGED <<err, gddState, syncResult, flowResult>>

\* async_setup_entry after login() returned: the coordinator is constructed
\* and refreshed for the first time, the platforms are set up; each of these
\* may raise, and nothing in async_setup_entry catches an exception or closes
\* the client
HostSetupRest ==
  /\ cycles' = cycles
  /\ pc = "setup_rest"
  /\ pc' = "idle"
  /\ \E raised \in BOOLEAN :
       IF raised
         THEN /\ host' = "failed"
              /\ err' = [type |-> "SetupError", msg |-> "setup", detail |-> "none"]
         ELSE /\ host' = "running"
              /\ err' = err
  /\ UNCHANGED <<serverVars, store, clientVars, gddVars, syncVars, insVars, loginVars>>
  /\ UNCHANGED <<loginCaller, gddState, syncResult, flowResult>>

async_setup_entry == HostSetup \/ HostSetupRest

\* async_unload_entry: coordinator.api_client.close()
HostUnload ==
  /\ cycles' = cycles
  /\ pc = "idle"
  /\ host = "running"
  /\ host' = "unloaded"
  /\ session' = close(session)
  /\ UNCHANGED <<token, contract_account_id, meter_number, meter_id>>
  /\ UNCHANGED <<serverVars, store, gddVars, syncVars, insVars, loginVars>>
  /\ UNCHANGED <<pc, loginCaller, err, gddState, syncResult, flowResult>>

\* a caller that still holds the client calls login() on it after close()
\* (login() is a public method and nothing in it looks at a closed client)
LoginAfterClose ==
  /\ cycles' = cycles
  /\ pc = "idle"
  /\ host = "unloaded"
  /\ session = "closed"
  /\ pc' = "login_root"
  /\ loginCaller' = "api"
  /\ err' = NoErr
  /\ loginResp' = NoLoginResp
  /\ loginSent' = <<>>
  /\ UNCHANGED <<serverVars, store, clientVars, gddVars, syncVars, insVars>>
  /\ UNCHANGED <<host, gddState, syncResult, flowResult>>

Next ==
  \/ ServerFinalize
  \/ async_step_user
  \/ async_setup_entry
  \/ login
  \/ get_daily_data
  \/ async_update_data
  \/ HostUnload
  \/ LoginAfterClose

Spec == Init /\ [][Next]_vars

\* ------------------------------------------------------------- properties
\* a get_daily_data call has ended (returned or raised) and its counters are
\* still those of the call
CallEnded ==
  \/ pc = "sync_fetched" /\ gddState = "returned"
  \/ pc = "sync_done" /\ gddState = "raised"

\* the first response carried no payload and a message that signals an
\* expired session
ExpiredFirst == firstResp.kind = "nodata" /\ firstResp.message \in ExpiryMessages

\* the messages of the exceptions login() raises
LoginFailures ==
  {"Failed to obtain session", "Login failed with status", "Login failed",
   "Connection error during login", "Validation failed",
   "Failed to get contract accounts", "No contract accounts found",
   "Failed to get meter points", "No meter points found",
   "Failed to get meter point ID"}

\* the positions inside login()
LoginSteps ==
  {"login_root", "login_post", "login_validation", "login_contract_accounts",
   "login_meter_points", "login_meter_point_id"}

\* C1, as stated: a get_daily_data call whose first response signals an
\* expired session performs exactly one login() and exactly one replay of the
\* request (so one login and two requests in all)
C1_ExactlyOneLoginAndOneReplay ==
  (CallEnded /\ ExpiredFirst) => (gddLogins = 1 /\ gddRequests = 2)

\* C1, amended: a get_daily_data call never makes more than one login() nor
\* more than two requests; when its first response signals an expired session
\* it makes exactly one login(), and replays the request exactly once if that
\* login succeeds; if the login raises, the call ends with the login's error
\* after one request; a replay that again has no payload ends the call with
\* "API returned no data" with no further login or request
C1_OneLoginAndReplayIfLoginSucceeds ==
  /\ gddLogins <= 1
  /\ gddRequests <= 2
  /\ (pc = "gdd_retry" \/ (pc \in LoginSteps /\ loginCaller = "gdd"))
       => (gddLogins = 1 /\ gddRequests = 1 /\ ExpiredFirst)
  /\ (CallEnded /\ ~ExpiredFirst) => (gddLogins = 0 /\ gddRequests = 1)
  /\ (CallEnded /\ ExpiredFirst) =>
       /\ gddLogins = 1
       /\ retryResp.kind = "none" =>
            (gddRequests = 1 /\ gddState = "raised" /\ err.msg \in LoginFailures)
       /\ retryResp.kind # "none" => gddRequests = 2
       /\ retryResp.kind = "payload" => gddState = "returned"
       /\ retryResp.kind \in {"nodata", "empty"} =>
            (gddState = "raised" /\ err.msg = "API returned no data")

\* C1, witness: the first response and the replay both signalled an expired
\* session; the call made one login and two requests and raised
C1_Witness ==
  /\ pc = "sync_done"
  /\ gddState = "raised"
  /\ ExpiredFirst
  /\ retryResp.kind = "nodata"
  /\ retryResp.message \in ExpiryMessages
  /\ gddLogins = 1
  /\ gddRequests = 2
  /\ err.msg = "API returned no data"

\* C2: running the backfill a second time with the same batch of readings
\* leaves every stored point (start, state, sum) as the first run left it
C2_BackfillIdempotent ==
  (pc = "sync_insert" /\ valid_values # <<>>) =>
     \A s \in SeriesIds :
        LET once == InsertResult(store[s], valid_values)
        IN  InsertResult(once, valid_values) = once

\* C2, witness: a backfill is about to run with a batch an earlier cycle has
\* already written, point for point, into the store
C2_Witness ==
  /\ pc = "sync_insert"
  /\ Len(valid_values) >= 2
  /\ cycles = 2
  /\ store[StatisticId(meter_id)] # {}
  /\ \A i \in 1..Len(valid_values) :
        \E p \in store[StatisticId(meter_id)] : p.start = HourOf(valid_values[i].date)
  /\ InsertResult(store[StatisticId(meter_id)], valid_values) = store[StatisticId(meter_id)]

\* the sum of the latest point of a series that starts before hour h, and 0
\* when there is none
SumBefore(points, h) ==
  LET earlier == {p \in points : p.start < h}
  IN  IF earlier = {} THEN 0
      ELSE (CHOOSE p \in earlier : \A q \in earlier : q.start <= p.start).sum

\* C3: for every stored hour h, sum(h) is the sum of the latest stored point
\* before h (0 if there is none) plus state(h)
C3_SumIsPreviousSumPlusState ==
  \A s \in SeriesIds : \A p \in store[s] :
     p.sum = SumBefore(store[s], p.start) + p.state

\* C4: within a series the cumulative sum never decreases from an hour to a
\* later hour
C4_SumMonotone ==
  \A s \in SeriesIds : \A p \in store[s], q \in store[s] :
     p.start < q.start => p.sum <= q.sum

\* C5: the baseline of a backfill is the sum of the stored point at or latest
\* before the hour preceding the batch's earliest reading, and 0 only when
\* there is no such point
C5_BaselineIsLatestEarlierSum ==
  (pc = "sync_done" /\ storeUpserts = 1) =>
     base_sum = SumBefore(store[StatisticId(meter_id)], first_dt)

\* C6: when the store holds a point at hour H with sum S and the backfill
\* runs with a single reading at hour H+1 of value v, the store gets the
\* point (H+1, state round(v, 3), sum round(S + v, 3)) and the point at H is
\* unchanged
C6_ContinuityStep ==
  (pc = "sync_insert" /\ pc' = "sync_done" /\ syncResult' = "snapshot"
     /\ Len(valid_values) = 1) =>
     LET sid == StatisticId(meter_id)
         v == valid_values[1]
     IN  \A p \in store[sid] :
            p.start = HourOf(v.date) - 1 =>
               /\ p \in store'[sid]
               /\ [start |-> HourOf(v.date), sum |-> Round3(p.sum + v.value),
                   state |-> Round3(v.value)] \in store'[sid]
C6_Continuity == [][C6_ContinuityStep]_vars

\* C6, witness: a backfill of a single reading has run on a store that held
\* a point with a non-zero sum at the hour before the reading
C6_Witness ==
  /\ pc = "sync_done"
  /\ syncResult = "snapshot"
  /\ Len(valid_values) = 1
  /\ Len(statistics) = 1
  /\ entries # <<>>
  /\ base_sum > 0
  /\ \E p \in store[StatisticId(meter_id)] :
        /\ p.start = first_dt
        /\ p.sum = Round3(base_sum + valid_values[1].value)

\* C7: a failure of the backfill (the query of the store or the upsert) does
\* not fail the cycle: the cycle still returns its snapshot
C7_BackfillFailureKeepsSnapshot ==
  (pc = "sync_done" /\ err.type = "StoreError") => syncResult = "snapshot"

\* C8: when get_daily_data fails, the cycle fails with UpdateFailed, returns
\* no snapshot, and neither queries nor writes the statistics store
C8_FetchFailureFailsCycle ==
  (pc = "sync_done" /\ gddState = "raised") =>
     /\ syncResult = "UpdateFailed"
     /\ storeQueries = 0
     /\ storeUpserts = 0
     /\ statistics = <<>>

\* C8, witness: the fetch of yesterday (the fallback) raised and the cycle
\* failed
C8_Witness ==
  /\ pc = "sync_done"
  /\ gddState = "raised"
  /\ gddCalls = 2
  /\ err.type = "WwzAuthError"
  /\ syncResult = "UpdateFailed"

\* a cycle has returned a snapshot after falling back to yesterday
FallbackSnapshot == pc = "sync_done" /\ syncResult = "snapshot" /\ gddCalls = 2

\* C9, as stated: after a fallback the snapshot describes yesterday: its
\* data_date is yesterday and its values, unit and daily total are those of
\* a direct fetch of yesterday
C9_FallbackEqualsDirectFetch ==
  FallbackSnapshot =>
     /\ data.data_date = <<FormatDate(sync_now) - 1>>
     /\ data.values = fetched.values
     /\ data.unit = fetched.unit
     /\ data.daily_total = fetched.daily_total

\* C9, amended: after a fallback the snapshot's data_date is yesterday, its
\* values and unit are those of a direct fetch of yesterday, and its daily
\* total is the rounded sum of the status-0 readings of that fetch only; a
\* cycle that got a status-0 reading for today does not fall back
C9_FallbackDescribesYesterday ==
  /\ FallbackSnapshot =>
       /\ data.data_date = <<FormatDate(sync_now) - 1>>
       /\ gddDate = sync_now - DayTicks
       /\ data.values = fetched.values
       /\ data.unit = fetched.unit
       /\ data.daily_total = Round3(SumValues(FilterValid(fetched.values)))
       /\ \A i \in 1..Len(data.values) :
             FormatDate(data.values[i].date) = FormatDate(sync_now) - 1
  /\ (pc = "sync_done" /\ syncResult = "snapshot" /\ gddCalls = 1) =>
       /\ valid_values # <<>>
       /\ data.data_date = <<FormatDate(sync_now)>>

\* C9, witness: a fallback snapshot whose fetch of yesterday held a status-0
\* reading and a pending row with a non-zero provisional value
C9_Witness ==
  /\ FallbackSnapshot
  /\ valid_values # <<>>
  /\ \E i \in 1..Len(fetched.values) :
        fetched.values[i].status # 0 /\ fetched.values[i].value # 0
  /\ data.daily_total # fetched.daily_total

\* the value of the chronologically latest reading of vv with a timestamp
\* not after now_ms; <<>> when there is none
LatestValueAtOrBefore(vv, now_ms) ==
  LET past == {i \in 1..Len(vv) : vv[i].date <= now_ms}
  IN  IF past = {} THEN <<>>
      ELSE <<vv[CHOOSE i \in past : \A j \in past : vv[j].date <= vv[i].date].value>>

\* C10: whatever the order of the readings, last_hour is the value of the
\* chronologically latest status-0 reading with a timestamp not after now,
\* and is absent exactly when there is no such reading
C10_LastHourIsChronologicallyLatest ==
  (pc = "sync_done" /\ syncResult = "snapshot") =>
     data.last_hour = LatestValueAtOrBefore(valid_values, sync_now)

\* the sum of the values of the readings of s whose status is 0
RECURSIVE SumOfStatusZero(_)
SumOfStatusZero(s) ==
  IF s = <<>> THEN 0
  ELSE (IF Head(s).status = 0 THEN Head(s).value ELSE 0) + SumOfStatusZero(Tail(s))

\* the hours of the readings of s whose status is 0, and of those whose
\* status is not 0
HoursOfStatusZero(s) == {HourOf(s[i].date) : i \in {j \in 1..Len(s) : s[j].status = 0}}
HoursOfOtherStatus(s) == {HourOf(s[i].date) : i \in {j \in 1..Len(s) : s[j].status # 0}}

\* C11: readings whose status is not 0 never contribute: the snapshot's
\* daily_total is the rounded sum of the status-0 readings only, the backfill
\* builds exactly one point per status-0 reading, and no point is built or
\* stored for the hour of a reading of another status
C11_OnlyStatusZeroContributes ==
  (pc = "sync_done" /\ syncResult = "snapshot") =>
     /\ data.daily_total = Round3(SumOfStatusZero(data.values))
     /\ {statistics[i].start : i \in 1..Len(statistics)} = HoursOfStatusZero(data.values)
     /\ Len(statistics) = Cardinality(HoursOfStatusZero(data.values))
     /\ \A h \in HoursOfOtherStatus(data.values) :
           \A p \in store[StatisticId(meter_id)] : p.start # h

\* C11, witness: a snapshot of a day with a status-0 reading and a pending
\* reading of non-zero provisional value; the backfill has written its points
C11_Witness ==
  /\ pc = "sync_done"
  /\ syncResult = "snapshot"
  /\ storeUpserts = 1
  /\ statistics # <<>>
  /\ \E i \in 1..Len(data.values) : data.values[i].status # 0 /\ data.values[i].value # 0
  /\ data.daily_total # Round3(SumValues(data.values))

\* C12: close() is terminal: once the entry's client has been closed it stays
\* closed, and no later login() on it opens a session or sends a request
C12_CloseIsTerminal ==
  host = "unloaded" => (session = "closed" /\ pc \in {"idle", "login_root"})

\* a login() on a newly constructed client has raised
LoginFailedOnNewClient ==
  \/ host = "failed" /\ err.type \in {"WwzAuthError", "WwzApiError"}
  \/ pc = "flow_finally" /\ flowResult \notin {"none", "create_entry"}

\* C13: login() is atomic: when it raises, the client holds nothing the
\* failed call captured (no token, contract-account id, meter number or
\* meter id)
C13_LoginAtomic ==
  LoginFailedOnNewClient =>
     /\ token = None
     /\ contract_account_id = None
     /\ meter_number = None
     /\ meter_id = None

\* a step that constructs a new client (async_step_user, async_setup_entry)
ConstructsClient == pc = "idle" /\ pc' = "login_root" /\ loginCaller' \in {"flow", "host"}

\* C14: once a login has set the client's meter_id to a meter's id, no later
\* step of that client changes it
C14_MeterIdStep == (meter_id \in MeterIds /\ ~ConstructsClient) => meter_id' = meter_id
C14_MeterIdNeverChanges == [][C14_MeterIdStep]_vars

\* C15: a cycle started while the client's meter id is None or empty fails at
\* once with UpdateFailed: no get_daily_data call, no login, no request to the
\* portal, no query of the store and no upsert; the store and the client are
\* untouched
C15_NoMeterIdStep ==
  (pc = "idle" /\ cycles' = cycles + 1 /\ (meter_id = None \/ meter_id = "")) =>
     /\ pc' = "sync_done"
     /\ syncResult' = "UpdateFailed"
     /\ err'.type = "UpdateFailed"
     /\ err'.msg = "No meter ID available"
     /\ gddCalls' = 0
     /\ gddRequests' = 0
     /\ gddLogins' = 0
     /\ loginSent' = <<>>
     /\ storeQueries' = 0
     /\ storeUpserts' = 0
     /\ store' = store
     /\ UNCHANGED clientVars
C15_NoMeterIdFailsFast == [][C15_NoMeterIdStep]_vars

\* C15, witness: a cycle has failed for want of a meter id (the login had
\* stored the empty string)
C15_Witness ==
  /\ pc = "sync_done"
  /\ meter_id = ""
  /\ syncResult = "UpdateFailed"
  /\ err.msg = "No meter ID available"
  /\ gddCalls = 0

\* the login POST was answered, with a status other than 200 or a body whose
\* messageType is not 0 (or is missing)
RejectedLoginReply ==
  /\ loginResp.transport = "ok"
  /\ (loginResp.status # 200 \/ loginResp.messageType # <<0>>)

\* the messages of the exceptions raised for a transport failure of a step
TransportFailures ==
  {"Failed to obtain session", "Connection error during login",
   "Validation failed", "Failed to get contract accounts",
   "Failed to get meter points", "Failed to get meter point ID"}

\* async_step_user has got the outcome of its login()
FlowEnded ==
  /\ flowResult # "none"
  /\ (pc = "flow_finally" \/ (pc = "idle" /\ host \in {"new", "entry"}))

\* C16: a login POST answered with a non-200 status or a messageType that is
\* not 0 (or missing) ends login() with WwzAuthError; a transport failure of
\* any step ends it with the generic WwzApiError; the config flow reports the
\* former as invalid_auth and the latter as cannot_connect, and creates an
\* entry only when login() returned without error
C16_AuthFailureVersusConnectivity ==
  /\ RejectedLoginReply => (err.type = "WwzAuthError" /\ pc \notin LoginSteps)
  /\ err.type = "WwzAuthError" => RejectedLoginReply
  /\ (loginResp.transport = "error" \/ err.msg \in TransportFailures)
       => err.type = "WwzApiError"
  /\ FlowEnded =>
       /\ flowResult \in {"invalid_auth", "cannot_connect", "create_entry"}
       /\ flowResult = "invalid_auth" <=> RejectedLoginReply
       /\ flowResult = "cannot_connect" <=> err.type = "WwzApiError"
       /\ flowResult = "create_entry" <=> (err = NoErr /\ Len(loginSent) = 6)
  /\ host # "new" => flowResult = "create_entry"

\* C16, witness: the config flow has reported invalid_auth for a login POST
\* answered 200 with no messageType, and has closed its client
C16_Witness ==
  /\ pc = "idle"
  /\ host = "new"
  /\ flowResult = "invalid_auth"
  /\ loginResp.transport = "ok"
  /\ loginResp.status = 200
  /\ loginResp.messageType = <<>>
  /\ session = "closed"

\* the six requests of the handshake in the order the claim gives them: root
\* GET, login POST, validation POST, contractAccounts, getMeterPoints,
\* getMeterPointId
HandshakeOrder ==
  <<"login_root", "login_post", "login_validation", "login_contract_accounts",
    "login_meter_points", "login_meter_point_id">>

\* the step of the handshake that raises a message
FailingStep(msg) ==
  CASE msg = "Failed to obtain session" -> 1
    [] msg \in {"Login failed with status", "Login failed",
                "Connection error during login"} -> 2
    [] msg = "Validation failed" -> 3
    [] msg \in {"Failed to get contract accounts", "No contract accounts found"} -> 4
    [] msg \in {"Failed to get meter points", "No meter points found"} -> 5
    [] OTHER -> 6

\* C17: within one login() call the six requests are issued in the order
\* root, login, validation, contractAccounts, getMeterPoints, getMeterPointId,
\* each at most once; a request is issued only after every earlier step
\* completed, and once a step has failed no later request is sent
C17_HandshakeOrder ==
  /\ Len(loginSent) <= 6
  /\ loginSent = SubSeq(HandshakeOrder, 1, Len(loginSent))
  /\ \A i \in 1..6 : pc = HandshakeOrder[i] => Len(loginSent) = i - 1
  /\ err.msg \in LoginFailures => Len(loginSent) = FailingStep(err.msg)

\* C17, witness: a login() has failed on an empty meter-point list after
\* issuing the first five requests
C17_Witness ==
  /\ err.msg = "No meter points found"
  /\ pc \notin LoginSteps
  /\ loginSent = SubSeq(HandshakeOrder, 1, 5)

\* C18: a first response with no payload whose message is not an expiry
\* signal ends get_daily_data with the data-unavailable error carrying the
\* remote's message text, after exactly one data request and no login(), and
\* leaves the client's session fields unchanged
C18_NoPayloadStep ==
  (pc = "gdd_first" /\ firstResp'.kind = "nodata"
     /\ firstResp'.message \notin ExpiryMessages) =>
     /\ pc' = "sync_done"
     /\ gddState' = "raised"
     /\ err'.type = "WwzApiError"
     /\ err'.msg = "API returned no data"
     /\ err'.detail = IF firstResp'.message = "absent" THEN "unknown"
                      ELSE firstResp'.message
     /\ gddRequests' = 1
     /\ gddLogins' = 0
     /\ loginSent' = <<>>
     /\ UNCHANGED clientVars
C18_NoPayloadWithoutExpiry == [][C18_NoPayloadStep]_vars

\* C18, witness: get_daily_data has raised on "No data for period"
C18_Witness ==
  /\ pc = "sync_done"
  /\ gddState = "raised"
  /\ firstResp.kind = "nodata"
  /\ firstResp.message = "No data for period"
  /\ err.detail = "No data for period"
  /\ gddRequests = 1
  /\ gddLogins = 0

\* C19: when get_daily_data detects expiry and the re-login fails at any
\* step, the call fails with that login's error, the data request is not
\* replayed, and login() is not attempted again in that call
C19_FailedReloginEndsCall ==
  /\ (CallEnded /\ gddLogins = 1 /\ retryResp = NoResp) =>
       /\ gddState = "raised"
       /\ err.msg \in LoginFailures
       /\ Len(loginSent) = FailingStep(err.msg)
       /\ gddRequests = 1
  /\ (CallEnded /\ err.msg \in LoginFailures) =>
       /\ ExpiredFirst
       /\ gddLogins = 1
       /\ gddRequests = 1
       /\ retryResp = NoResp
  /\ pc = "gdd_retry" => (Len(loginSent) = 6 /\ err = NoErr)

\* C19, witness: the re-login was rejected by the login endpoint and the call
\* raised WwzAuthError after one data request
C19_Witness ==
  /\ pc = "sync_done"
  /\ gddState = "raised"
  /\ ExpiredFirst
  /\ err.type = "WwzAuthError"
  /\ gddLogins = 1
  /\ gddRequests = 1
  /\ retryResp = NoResp
  /\ Len(loginSent) = 2

\* a login() of the client has returned without error
LoginReturned ==
  \/ host = "running"
  \/ pc = "gdd_retry"
  \/ pc = "flow_finally" /\ flowResult = "create_entry"

\* C20: after a successful login() the client holds a token, a
\* contract-account id, a meter number and a non-empty meter id
C20_LoginYieldsAllIdentifiers ==
  LoginReturned =>
     /\ token # None
     /\ contract_account_id # None
     /\ meter_number # None
     /\ meter_id # None
     /\ meter_id # ""

\* the readings of a fetch include at least one with status 0
HasStatusZero(values) == \E i \in 1 .. Len(values) : values[i].status = 0

\* the bounds of one cycle: at most two get_daily_data calls, the first for
\* today and the second for the day before, at most two logins and four data
\* requests; a cycle that goes on after one call holds readings and describes
\* today
C21_CycleBounds ==
  /\ gddCalls <= 2
  /\ earlierLogins + gddLogins <= 2
  /\ earlierRequests + gddRequests <= 4
  /\ gddCalls = 1 => gddDate = sync_now
  /\ gddCalls = 2 => gddDate = sync_now - DayTicks
  /\ (gddCalls = 1 /\ (pc = "sync_insert" \/ (pc = "sync_done" /\ gddState = "returned"))) =>
        /\ valid_values # <<>>
        /\ data.data_date = <<FormatDate(sync_now)>>

\* today's fetch returned with a status-0 reading: the cycle goes on to the
\* backfill with today's date, and no step of the rest of the cycle makes
\* another get_daily_data call
C21_TodaySufficesStep ==
  /\ (pc = "sync_fetched" /\ gddCalls = 1 /\ HasStatusZero(data.values)) =>
        /\ pc' = "sync_insert"
        /\ gddCalls' = 1
        /\ data'.data_date = <<FormatDate(sync_now)>>
  /\ pc = "sync_insert" => gddCalls' = gddCalls

\* C21: one sync cycle calls get_daily_data at most twice (today, then
\* yesterday) and so makes at most two logins and four data requests; when
\* today's fetch contains a status-0 reading the cycle makes exactly one
\* get_daily_data call, never fetches yesterday, and data_date is today
C21_AtMostTwoFetches ==
  /\ []C21_CycleBounds
  /\ [][C21_TodaySufficesStep]_vars

\* C21, witness: a cycle ended with a snapshot of today after one
\* get_daily_data call whose fetch held a status-0 reading
C21_Witness ==
  /\ pc = "sync_done"
  /\ syncResult = "snapshot"
  /\ gddCalls = 1
  /\ HasStatusZero(data.values)
  /\ data.data_date = <<FormatDate(sync_now)>>

\* a cycle that reached the bounds: two calls, two logins, four data requests
C21_FullCycle ==
  /\ pc = "sync_fetched"
  /\ gddCalls = 2
  /\ earlierLogins + gddLogins = 2
  /\ earlierRequests + gddRequests = 4

\* the hours of the points of a batch
BatchHours(points) == {points[i].start : i \in 1 .. Len(points)}

\* the stored point of hour h of the series the cycle writes to
StoredAt(h) == CHOOSE p \in store[StatisticId(meter_id)] : p.start = h

\* the cycle has upserted its batch and the batch an earlier cycle wrote has
\* the same series and earliest hour, all its readings are in this batch with
\* the values they had, and the other readings of this batch are of later hours
Reingested ==
  /\ pc = "sync_done"
  /\ syncResult = "snapshot"
  /\ storeUpserts = 1
  /\ written.points # <<>>
  /\ written.series = StatisticId(meter_id)
  /\ \A i \in 1 .. Len(written.points) :
       \E j \in 1 .. Len(valid_values) :
          /\ HourOf(valid_values[j].date) = written.points[i].start
          /\ Round3(valid_values[j].value) = written.points[i].state
  /\ \A j \in 1 .. Len(valid_values) :
       \/ HourOf(valid_values[j].date) \in BatchHours(written.points)
       \/ HourOf(valid_values[j].date) > written.points[Len(written.points)].start

\* C22: when a cycle writes a batch that has the earliest hour of the batch an
\* earlier cycle wrote, holds every reading of it with unchanged values and
\* otherwise only later hours, every hour of the earlier batch keeps the state
\* and the sum it had, and the new hours continue from the last sum of the
\* earlier batch
C22_ReingestReproducesSums ==
  Reingested =>
    /\ \A i \in 1 .. Len(written.points) :
         written.points[i] \in store[StatisticId(meter_id)]
    /\ \A j \in 1 .. Len(valid_values) :
         LET h == HourOf(valid_values[j].date)
             before == {HourOf(valid_values[k].date) : k \in 1 .. Len(valid_values)}
                          \cap 0 .. (h - 1)
             prev == CHOOSE b \in before : \A c \in before : c <= b
         IN  h \notin BatchHours(written.points) =>
               /\ \E p \in store[StatisticId(meter_id)] : p.start = h
               /\ before # {}
               /\ StoredAt(h).state = Round3(valid_values[j].value)
               /\ StoredAt(h).sum = Round3(StoredAt(prev).sum + valid_values[j].value)
               /\ (before = BatchHours(written.points)) =>
                     prev = written.points[Len(written.points)].start

\* C22, witness: a cycle re-ingested the batch of an earlier cycle together
\* with a later hour
C22_Witness ==
  /\ Reingested
  /\ Len(valid_values) > Len(written.points)
  /\ statistics[Len(statistics)].sum > written.points[Len(written.points)].sum

\* _insert_statistics has built `statistics` from a batch that is not empty
StatisticsBuilt == pc = "sync_done" /\ storeUpserts = 1

\* the absolute value of an integer
Abs(x) == IF x < 0 THEN 0 - x ELSE x

\* `statistics` holds one point per reading of the batch, in ascending hour
\* order, with state = round(value, 3) and a sum that is the previous sum (the
\* baseline for the first point) plus the value, rounded to 3 decimals
OnePointPerReading ==
  /\ Len(statistics) = Len(valid_values)
  /\ \A j \in 1 .. Len(valid_values) :
       \E i \in 1 .. Len(statistics) : statistics[i].start = HourOf(valid_values[j].date)
  /\ \A i \in 1 .. Len(statistics) - 1 : statistics[i].start < statistics[i + 1].start
  /\ \A i \in 1 .. Len(statistics) :
       \E j \in 1 .. Len(valid_values) :
          /\ HourOf(valid_values[j].date) = statistics[i].start
          /\ statistics[i].state = Round3(valid_values[j].value)
          /\ statistics[i].sum =
               Round3((IF i = 1 THEN base_sum ELSE statistics[i - 1].sum)
                        + valid_values[j].value)

\* C23 as stated: for a batch in any order, one point per reading in ascending
\* hour order, state = round(value, 3), sum = baseline plus the running total
\* rounded after each addition, and the last point's sum equals the baseline
\* plus the batch total
C23_LastSumIsBaselinePlusTotal ==
  StatisticsBuilt =>
    /\ OnePointPerReading
    /\ statistics[Len(statistics)].sum = base_sum + SumValues(valid_values)

\* C23, amended: for a batch in any order, one point per reading in ascending
\* hour order, state = round(value, 3), sum = previous sum plus value rounded
\* to 3 decimals; the last point's sum differs from the baseline plus the
\* batch total by at most 0.0005 per reading
C23_BackfillPoints ==
  StatisticsBuilt =>
    /\ OnePointPerReading
    /\ Abs(statistics[Len(statistics)].sum - (base_sum + SumValues(valid_values)))
         <= 5 * Len(valid_values)

\* C23, witness: a batch of two readings given in descending hour order was
\* turned into points, over a baseline that is not zero
C23_Witness ==
  /\ StatisticsBuilt
  /\ Len(valid_values) = 2
  /\ valid_values[1].date > valid_values[2].date
  /\ statistics[1].start < statistics[2].start
  /\ base_sum > 0

\* the host code that created the client has exited: the config flow has shown
\* its form again or created the entry, or async_setup_entry has raised
HostCodeExited == pc = "idle" /\ host \in {"new", "entry", "failed"}

\* C24: the session opened for a client is always released: once the config
\* flow or a failed entry setup has exited, and after the entry was unloaded,
\* the client's session is not open; a sync cycle never closes the session
C24_SessionReleased ==
  /\ HostCodeExited => session # "open"
  /\ (host = "unloaded" /\ loginCaller # "api") => session # "open"
  /\ host = "running" => session # "closed"

====
